---- MODULE Spec2Model ----
(***************************************************************************)
(* The LangChain / Azure AI Search sample notebook                         *)
(* (azure-search-vector-python-langchain-sample.ipynb) run top to bottom:  *)
(* the configuration cell, the two client-construction cells, the          *)
(* ingestion loop and the three query cells.  The embedding service and    *)
(* the search service are the environment: every request to them is a      *)
(* blocking call that either returns or raises.  Nothing in the notebook   *)
(* catches an exception, so a raise ends the run.                          *)
(***************************************************************************)
EXTENDS Integers, Sequences, FiniteSets, TLC

(* ----------------------------- bounds ---------------------------------- *)

\* At most this many of the seven configuration variables are absent or empty.
MaxUnset == 1

\* load_and_split yields at least one and at most this many chunks for a file.
MaxChunks == 2

\* The search service returns at most this many results (k = 50 scaled down).
MaxResults == 4

(* ------------------------ values of the notebook ----------------------- *)

\* Python's None; no environment of the model holds this string.
None == "<None>"

\* A name the notebook has not bound yet.
Unbound == "<unbound>"

ConfigVars ==
    { "AZURE_SEARCH_SERVICE_ENDPOINT", "AZURE_SEARCH_ADMIN_KEY", "AZURE_SEARCH_INDEX",
      "AZURE_OPENAI_ENDPOINT", "AZURE_OPENAI_KEY",
      "AZURE_OPENAI_EMBEDDING_DEPLOYMENT", "AZURE_OPENAI_API_VERSION" }

\* The variables the spec calls required (the two keys are the optional ones).
Required == ConfigVars \ { "AZURE_SEARCH_ADMIN_KEY", "AZURE_OPENAI_KEY" }

\* The non-empty value of variable v: a different string for every variable.
Value(v) == "value-of-" \o v

\* os.environ after load_dotenv: a dictionary holding some of the variables,
\* each with an empty or a non-empty string.
Environments ==
    UNION { { [v \in ConfigVars \ A |-> IF v \in E THEN "" ELSE Value(v)] :
                E \in { X \in SUBSET (ConfigVars \ A) :
                          Cardinality(A) + Cardinality(X) <= MaxUnset } } :
            A \in { Y \in SUBSET ConfigVars : Cardinality(Y) <= MaxUnset } }

\* The objects the identity library hands out.
DefaultAzureCredential == "DefaultAzureCredential()"
token_provider == "get_bearer_token_provider(DefaultAzureCredential())"

files ==
    << "Benefit_Options.pdf", "Northwind_Health_Plus_Benefits_Details.pdf",
       "Northwind_Standard_Benefits_Details.pdf" >>

\* k=50 in each query cell, and the [:3] slice that follows the call.
k == 50
TopN == 3

NoEmbeddings == [api_key |-> Unbound, azure_ad_token_provider |-> Unbound]

NoVectorStore ==
    [azure_search_endpoint |-> Unbound, azure_search_key |-> Unbound,
     index_name |-> Unbound, embedding_function |-> Unbound,
     semantic_configuration_name |-> Unbound]

NoResponse == [search_type |-> None, k |-> 0, results |-> <<>>]

\* A request to a remote service: the chunks first..last of file `file` for an
\* embedding or an index write, the search type and result bound for a query.
Request(kind, file, first, last, search_type, kk) ==
    [kind |-> kind, file |-> file, first |-> first, last |-> last,
     search_type |-> search_type, k |-> kk]

Min(a, b) == IF a < b THEN a ELSE b

\* s[:n]
Take(s, n) == SubSeq(s, 1, Min(n, Len(s)))

\* x or y, for values that are None or a non-empty string.
Truthy(x) == x # None /\ x # ""
Or(x, y) == IF Truthy(x) THEN x ELSE y

(* ------------------------------- state --------------------------------- *)

VARIABLES
    env,            \* os.environ, read by the configuration cell
    pdfChunks,      \* for each file, how many chunks load_and_split yields for it
    pc,             \* the statement the run is at
    failedIn,       \* "none", or what raised and ended the run
    endpoint, key_credential, index_name, azure_openai_endpoint,
    azure_openai_key, azure_openai_embedding_deployment,
    azure_openai_api_version, credential,
    embeddings,     \* the arguments AzureOpenAIEmbeddings was built with
    vector_store,   \* the arguments AzureSearch was built with
    fileIdx,        \* position of the for loop in files
    file_chunks, results, total_chunks,
    embedded,       \* chunks of file_chunks whose embedding has returned
    written,        \* chunks of file_chunks an index write has stored
    inflight,       \* the remote requests issued and not yet answered
    contacted,      \* whether any request to a remote service has been issued
    index,          \* the search index: for each file, its chunks stored
    reported,       \* the N of each "Indexed N chunks" line printed so far
    cell,           \* which query cell is running (0 before the first)
    response,       \* what the search service answered to the last query
    docs,           \* the result list of the running query cell (docs, and
                    \* docs_and_scores in the last cell), empty until its call returns
    printed         \* the results the running query cell has printed

cfgVars ==
    << endpoint, key_credential, index_name, azure_openai_endpoint, azure_openai_key,
       azure_openai_embedding_deployment, azure_openai_api_version, credential >>

inputVars == << env, pdfChunks >>

clientVars == << embeddings, vector_store >>

loopVars == << fileIdx, file_chunks, results, total_chunks, embedded, written >>

queryVars == << cell, response, docs, printed >>

netVars == << inflight, contacted >>

vars ==
    << inputVars, pc, failedIn, cfgVars, clientVars, loopVars, netVars, index,
       reported, queryVars >>

(* --------------------------- configuration ----------------------------- *)

\* The names in the order the cell reads them with os.environ[name].
ReadOrder ==
    << "AZURE_SEARCH_SERVICE_ENDPOINT", "AZURE_SEARCH_ADMIN_KEY", "AZURE_SEARCH_INDEX",
       "AZURE_OPENAI_ENDPOINT", "AZURE_OPENAI_KEY",
       "AZURE_OPENAI_EMBEDDING_DEPLOYMENT", "AZURE_OPENAI_API_VERSION" >>

\* The reads written as os.environ.get(name): none of them raises.
KeyErrorWithGet(e) == 0

\* os.environ[name] raises KeyError for a name the dictionary does not hold:
\* the position in ReadOrder of the first read that raises, 0 if none does.
KeyError(e) ==
    IF \E i \in 1..Len(ReadOrder) : ReadOrder[i] \notin DOMAIN e
    THEN CHOOSE i \in 1..Len(ReadOrder) :
           /\ ReadOrder[i] \notin DOMAIN e
           /\ \A j \in 1..(i - 1) : ReadOrder[j] \in DOMAIN e
    ELSE 0

\* os.environ[name], for a read that does not raise.
Environ(e, name) == IF name \in DOMAIN e THEN e[name] ELSE None

\* os.environ[name] if len(os.environ[name]) > 0 else None
KeyOrNone(e, name) == IF Len(Environ(e, name)) > 0 THEN Environ(e, name) ELSE None

Init ==
    /\ env \in Environments
    /\ pdfChunks \in [1..Len(files) -> 1..MaxChunks]
    /\ pc = "load_env"
    /\ failedIn = "none"
    /\ endpoint = Unbound /\ key_credential = Unbound /\ index_name = Unbound
    /\ azure_openai_endpoint = Unbound /\ azure_openai_key = Unbound
    /\ azure_openai_embedding_deployment = Unbound
    /\ azure_openai_api_version = Unbound /\ credential = Unbound
    /\ embeddings = NoEmbeddings
    /\ vector_store = NoVectorStore
    /\ fileIdx = 0 /\ file_chunks = <<>> /\ results = <<>> /\ total_chunks = 0
    /\ embedded = 0 /\ written = 0
    /\ inflight = {}
    /\ contacted = FALSE
    /\ index = [i \in 1..Len(files) |-> 0]
    /\ reported = <<>>
    /\ cell = 0
    /\ response = NoResponse /\ docs = <<>> /\ printed = <<>>

\* The configuration cell: seven reads in order, each binding its name, then
\* credential.  A read that raises ends the cell, and the run, with the names
\* before it bound.
LoadEnv ==
    /\ pc = "load_env"
    /\ LET raised == KeyError(env)
           Bind(i, v) == IF raised = 0 \/ i < raised THEN v ELSE Unbound
       IN  /\ endpoint' = Bind(1, Environ(env, ReadOrder[1]))
           /\ key_credential' = Bind(2, KeyOrNone(env, ReadOrder[2]))
           /\ index_name' = Bind(3, Environ(env, ReadOrder[3]))
           /\ azure_openai_endpoint' = Bind(4, Environ(env, ReadOrder[4]))
           /\ azure_openai_key' = Bind(5, KeyOrNone(env, ReadOrder[5]))
           /\ azure_openai_embedding_deployment' = Bind(6, Environ(env, ReadOrder[6]))
           /\ azure_openai_api_version' = Bind(7, Environ(env, ReadOrder[7]))
           /\ credential' = Bind(8, Or(key_credential', DefaultAzureCredential))
           /\ pc' = IF raised = 0 THEN "create_embeddings" ELSE "aborted"
           /\ failedIn' = IF raised = 0 THEN "none" ELSE "config"
    /\ UNCHANGED << inputVars, clientVars, loopVars, netVars, index, reported, queryVars >>

(* ------------------------------ clients -------------------------------- *)

\* The token provider passed whether or not there is a key.
TokenProviderAlways == token_provider

\* azure_ad_token_provider=token_provider if not azure_openai_key else None
TokenProviderArg == IF ~Truthy(azure_openai_key) THEN token_provider ELSE None

CreateEmbeddings ==
    /\ pc = "create_embeddings"
    /\ embeddings' = [api_key |-> azure_openai_key,
                      azure_ad_token_provider |-> TokenProviderArg]
    /\ pc' = "create_vector_store"
    /\ UNCHANGED << inputVars, failedIn, cfgVars, vector_store, loopVars, netVars,
                    index, reported, queryVars >>

\* The credential chosen in the configuration cell passed as the key.
SearchKeyArgCredential == credential

\* azure_search_key=key_credential
SearchKeyArg == key_credential

CreateVectorStore ==
    /\ pc = "create_vector_store"
    /\ vector_store' = [azure_search_endpoint |-> endpoint,
                        azure_search_key |-> SearchKeyArg,
                        index_name |-> index_name,
                        embedding_function |-> "embeddings.embed_query",
                        semantic_configuration_name |-> "default"]
    /\ pc' = "ingest"
    /\ UNCHANGED << inputVars, failedIn, cfgVars, embeddings, loopVars, netVars, index,
                    reported, queryVars >>

(* ------------------------------ ingestion ------------------------------ *)

\* loader.load_and_split(splitter): the chunks of file i, in order, each tagged
\* with its source file.
LoadAndSplit(i) == [j \in 1..pdfChunks[i] |-> << files[i], j >>]

\* The ingestion cell up to its loop: total_chunks = 0, and the loop starts at
\* the first file.
StartIngestion ==
    /\ pc = "ingest"
    /\ total_chunks' = 0
    /\ fileIdx' = 1
    /\ pc' = "for_file"
    /\ UNCHANGED << inputVars, failedIn, cfgVars, clientVars, file_chunks, results,
                    embedded, written, netVars, index, reported, queryVars >>

\* for file in files: the next file is loaded and split, and add_documents is
\* entered with all of its chunks.
ForFile ==
    /\ pc = "for_file"
    /\ fileIdx <= Len(files)
    /\ file_chunks' = LoadAndSplit(fileIdx)
    /\ embedded' = 0
    /\ written' = 0
    /\ pc' = "add_documents"
    /\ UNCHANGED << inputVars, failedIn, cfgVars, clientVars, fileIdx, results,
                    total_chunks, netVars, index, reported, queryVars >>

\* The vector store embeds with embedding_function=embeddings.embed_query, which
\* takes one text: one request to the embedding service per chunk, in order.
NextToEmbed == embedded + 1

EmbedCall ==
    /\ pc = "add_documents"
    /\ inflight = {}
    /\ NextToEmbed <= Len(file_chunks)
    /\ inflight' = { Request("embed", fileIdx, NextToEmbed, NextToEmbed, None, 0) }
    /\ contacted' = TRUE
    /\ UNCHANGED << inputVars, pc, failedIn, cfgVars, clientVars, loopVars, index,
                    reported, queryVars >>

EmbedReturn ==
    /\ \E req \in inflight :
         /\ req.kind = "embed"
         /\ embedded' = req.last
         /\ inflight' = inflight \ {req}
    /\ UNCHANGED << inputVars, pc, failedIn, cfgVars, clientVars, fileIdx, file_chunks,
                    results, total_chunks, written, contacted, index, reported,
                    queryVars >>

\* A write issued for the whole list, embedded or not.
WholeFile == Len(file_chunks)

\* An index write carries records that have their vector: the chunks embedded
\* and not yet written.  The notebook hands add_documents the whole list, so
\* how many chunks one write carries is the library's choice: a write may be
\* issued whenever such chunks are pending.
LastToWrite == embedded

\* The write issued without waiting for the embedding request still in flight.
WriteCallPipelined ==
    /\ pc = "add_documents"
    /\ \A req \in inflight : req.kind # "write"
    /\ written < LastToWrite
    /\ inflight' = inflight \cup
                     { Request("write", fileIdx, written + 1, LastToWrite, None, 0) }
    /\ contacted' = TRUE
    /\ UNCHANGED << inputVars, pc, failedIn, cfgVars, clientVars, loopVars, index,
                    reported, queryVars >>

WriteCall ==
    /\ pc = "add_documents"
    /\ inflight = {}
    /\ written < LastToWrite
    /\ inflight' = { Request("write", fileIdx, written + 1, LastToWrite, None, 0) }
    /\ contacted' = TRUE
    /\ UNCHANGED << inputVars, pc, failedIn, cfgVars, clientVars, loopVars, index,
                    reported, queryVars >>

WriteReturn ==
    /\ \E req \in inflight :
         /\ req.kind = "write"
         /\ written' = req.last
         /\ index' = [index EXCEPT ![req.file] = @ + (req.last - req.first + 1)]
         /\ inflight' = inflight \ {req}
    /\ UNCHANGED << inputVars, pc, failedIn, cfgVars, clientVars, fileIdx, file_chunks,
                    results, total_chunks, embedded, contacted, reported, queryVars >>

\* total_chunks = len(results)
Overwrite(total, res) == Len(res)

\* total_chunks += len(results)
AddToTotal(total, res) == total + Len(res)

\* add_documents returns the keys of the records it wrote; the loop body adds
\* their number to the total, prints the file name and goes to the next file.
AddDocumentsReturn ==
    /\ pc = "add_documents"
    /\ inflight = {}
    /\ embedded = Len(file_chunks)
    /\ written = Len(file_chunks)
    /\ results' = [j \in 1..written |-> file_chunks[j]]
    /\ total_chunks' = AddToTotal(total_chunks, results')
    /\ fileIdx' = fileIdx + 1
    /\ pc' = "for_file"
    /\ UNCHANGED << inputVars, failedIn, cfgVars, clientVars, file_chunks, embedded,
                    written, netVars, index, reported, queryVars >>

\* print(f"Indexed {total_chunks} chunks"), after the loop.
PrintTotal ==
    /\ pc = "for_file"
    /\ fileIdx > Len(files)
    /\ reported' = Append(reported, total_chunks)
    /\ cell' = 1
    /\ pc' = "search"
    /\ UNCHANGED << inputVars, failedIn, cfgVars, clientVars, loopVars, netVars,
                    index, response, docs, printed >>

\* The failed request caught and issued again.
RetryOnFailure ==
    /\ \E req \in inflight :
         /\ failedIn' = req.kind
         /\ inflight' = {req}
    /\ UNCHANGED << inputVars, pc, cfgVars, clientVars, loopVars, contacted, index,
                    reported, queryVars >>

\* A request that fails raises; no cell has a try, so the run ends there.
RemoteCallFails ==
    /\ \E req \in inflight :
         /\ failedIn' = req.kind
         /\ inflight' = inflight \ {req}
    /\ pc' = "aborted"
    /\ UNCHANGED << inputVars, cfgVars, clientVars, loopVars, contacted, index,
                    reported, queryVars >>

(* ------------------------------- queries ------------------------------- *)

\* The three query cells, in the order they run.
QueryCells == << "similarity", "hybrid", "semantic_hybrid" >>

\* What each cell asks the search service for: similarity_search with
\* search_type "similarity", the same with "hybrid", and
\* semantic_hybrid_search_with_score.
SearchType(c) == QueryCells[c]

\* The answers the search service may give to a request for kk results: any
\* ranking of at most kk distinct records.
RemoteResults(kk) ==
    UNION { { s \in [1..n -> 1..MaxResults] :
                \A i, j \in 1..n : i # j => s[i] # s[j] } :
            n \in 0..Min(kk, MaxResults) }

\* The cell issues its query and blocks on it.  What the cell before left in
\* docs is never read again.
SearchCall ==
    /\ pc = "search"
    /\ inflight = {}
    /\ inflight' = { Request("query", 0, 0, 0, SearchType(cell), k) }
    /\ contacted' = TRUE
    /\ response' = NoResponse
    /\ docs' = <<>>
    /\ printed' = <<>>
    /\ UNCHANGED << inputVars, pc, failedIn, cfgVars, clientVars, loopVars, index,
                    reported, cell >>

\* docs = vector_store.similarity_search(...), and
\* docs_and_scores = vector_store.semantic_hybrid_search_with_score(...)
SearchReturn ==
    /\ \E req \in inflight :
         /\ req.kind = "query"
         /\ \E r \in RemoteResults(req.k) :
              /\ response' = [search_type |-> req.search_type, k |-> req.k,
                              results |-> r]
              /\ docs' = r
         /\ inflight' = inflight \ {req}
    /\ pc' = "show"
    /\ UNCHANGED << inputVars, failedIn, cfgVars, clientVars, loopVars, contacted,
                    index, reported, cell, printed >>

\* The slice left out: docs printed whole.
NoSlice(d) == d

\* docs[-3:]
LastThree(d) == SubSeq(d, Len(d) - Min(TopN, Len(d)) + 1, Len(d))

\* docs[:3]
Shown(d) == Take(d, TopN)

\* docs = docs[:3], the loop that prints each of them, and on to the next cell.
ShowTop ==
    /\ pc = "show"
    /\ docs' = Shown(docs)
    /\ printed' = docs'
    /\ IF cell < Len(QueryCells)
       THEN cell' = cell + 1 /\ pc' = "search"
       ELSE cell' = cell /\ pc' = "done"
    /\ UNCHANGED << inputVars, failedIn, cfgVars, clientVars, loopVars, netVars,
                    index, reported, response >>

(* ------------------------------- claims -------------------------------- *)

RECURSIVE SumTo(_, _)
\* f[1] + ... + f[n]
SumTo(f, n) == IF n = 0 THEN 0 ELSE f[n] + SumTo(f, n - 1)

RequiredAbsent == \E v \in Required : v \notin DOMAIN env

RequiredEmpty == \E v \in Required : v \in DOMAIN env /\ env[v] = ""

\* The run ended in the configuration cell, or has not left it, and no request
\* to a remote service was issued.
StoppedInConfig ==
    /\ pc \in {"load_env", "aborted"}
    /\ pc = "aborted" => failedIn = "config"
    /\ ~contacted
    /\ inflight = {}

\* C1 as amended: if a required configuration variable is absent, the run
\* aborts in the configuration cell, before any request to the embedding
\* service or the search service is issued.
C1_AbsentAborts == RequiredAbsent => StoppedInConfig

C1_Witness == RequiredAbsent /\ pc = "aborted" /\ failedIn = "config"

\* C1 as stated: the same for a required variable that is absent or empty.
C1_AbsentOrEmptyAborts == (RequiredAbsent \/ RequiredEmpty) => StoppedInConfig

\* C2 as amended: the search client is built with the admin key when the key
\* is non-empty and with no key (None) when it is empty; the identity
\* credential chosen by `key_credential or DefaultAzureCredential()` is bound
\* to `credential` and is not what the search client is handed.
C2_SearchKeyHanded ==
    vector_store # NoVectorStore =>
        LET key == env["AZURE_SEARCH_ADMIN_KEY"]
        IN  /\ key # "" => /\ vector_store.azure_search_key = key
                           /\ credential = key
            /\ key = "" => /\ vector_store.azure_search_key = None
                           /\ credential = DefaultAzureCredential

C2_Witness ==
    /\ vector_store # NoVectorStore
    /\ env["AZURE_SEARCH_ADMIN_KEY"] = ""
    /\ vector_store.azure_search_key = None

\* C2 as stated: the credential handed to the search client is the one the
\* key-or-identity rule chose: the key if non-empty, else the identity credential.
C2_ChosenCredentialHanded ==
    vector_store # NoVectorStore =>
        /\ vector_store.azure_search_key = credential
        /\ env["AZURE_SEARCH_ADMIN_KEY"] = "" =>
               vector_store.azure_search_key = DefaultAzureCredential

\* C3: the embeddings client is built with the API key and no token provider
\* when AZURE_OPENAI_KEY is non-empty, with the token provider and no API key
\* when it is empty, and never with both or with neither.
C3_ExactlyOneAuth ==
    embeddings # NoEmbeddings =>
        LET key == env["AZURE_OPENAI_KEY"]
        IN  /\ key # "" => /\ embeddings.api_key = key
                           /\ embeddings.azure_ad_token_provider = None
            /\ key = "" => /\ embeddings.api_key = None
                           /\ embeddings.azure_ad_token_provider = token_provider
            /\ (embeddings.api_key = None) # (embeddings.azure_ad_token_provider = None)

C3_Witness ==
    /\ embeddings # NoEmbeddings
    /\ env["AZURE_OPENAI_KEY"] = ""
    /\ embeddings.azure_ad_token_provider = token_provider

IngestFailed == failedIn \in {"embed", "write"}

\* C5: once an embedding or index-write request has failed during ingestion
\* the run is over: the request is not issued again, no request is in flight
\* or issued afterwards, nothing more is processed, and the "Indexed N
\* chunks" total is never reported.
C5_FailureAborts ==
    [][ /\ IngestFailed' => (pc' = "aborted" /\ inflight' = {} /\ reported' = <<>>)
        /\ IngestFailed => UNCHANGED vars ]_vars

C5_Witness ==
    /\ failedIn = "write"
    /\ pc = "aborted"
    /\ fileIdx = 2
    /\ index[1] = pdfChunks[1]
    /\ embedded > written

\* Every request in flight is for the file the loop is at; an embedding is for
\* the next chunk in order; an index write carries the chunks after those
\* already written, all of them embedded.
RequestsInOrder ==
    \A req \in inflight :
        /\ req.kind = "embed" => /\ req.file = fileIdx
                                 /\ req.first = embedded + 1
                                 /\ req.last = req.first
                                 /\ req.last <= Len(file_chunks)
        /\ req.kind = "write" => /\ req.file = fileIdx
                                 /\ req.first = written + 1
                                 /\ req.first <= req.last
                                 /\ req.last <= embedded

\* Files are taken in their listed order: every chunk of the files before the
\* current one is in the index, none of the files after it.
FilesInOrder ==
    /\ written <= embedded
    /\ embedded <= Len(file_chunks)
    /\ \A i \in 1..Len(files) :
         /\ i < fileIdx => index[i] = pdfChunks[i]
         /\ i = fileIdx /\ pc = "add_documents" => index[i] = written
         /\ i > fileIdx => index[i] = 0

C7_TotalIsSum ==
    /\ pc \in {"for_file", "add_documents"} =>
           total_chunks = SumTo(index, fileIdx - 1)
    /\ reported # <<>> =>
           /\ reported = << SumTo(pdfChunks, Len(files)) >>
           /\ reported = << SumTo(index, Len(files)) >>

C7_Witness ==
    /\ pdfChunks[1] # pdfChunks[2]
    /\ reported = << pdfChunks[1] + pdfChunks[2] + pdfChunks[3] >>

IsPrefix(s, t) ==
    /\ Len(s) <= Len(t)
    /\ \A i \in 1..Len(s) : s[i] = t[i]

\* C10: what each query cell gets from its call is the sequence the search
\* service produced for that cell's mode, in the same order, and what the cell
\* goes on to print is taken from the front of that sequence, in order:
\* nothing is reordered, dropped from the middle or taken from another mode.
C10_RemoteOrderKept ==
    /\ pc = "show" =>
           /\ docs = response.results
           /\ cell = 1 => response.search_type = "similarity"
           /\ cell = 2 => response.search_type = "hybrid"
           /\ cell = 3 => response.search_type = "semantic_hybrid"
    /\ IsPrefix(docs, response.results)
    /\ IsPrefix(printed, response.results)

C10_Witness ==
    /\ pc = "show"
    /\ cell = 2
    /\ Len(docs) = MaxResults
    /\ docs[1] > docs[2]

\* C11: at most one remote request (embedding, index write or query) is
\* outstanding in any reachable state, and a request is issued only when no
\* earlier request is still outstanding: the earlier one has returned or failed.
C11_OneCallInFlight ==
    /\ [](Cardinality(inflight) <= 1)
    /\ [][ (inflight' \ inflight) # {} => inflight = {} ]_vars

C11_Witness ==
    \E req \in inflight :
        /\ req.kind = "write"
        /\ req.first = 2
        /\ embedded = 2
        /\ index[fileIdx] = 1

\* The running query cell has printed its results (or has nothing to print yet).
CellPrinted == pc # "show"

\* C12: each query cell asks the search service for up to 50 results, and what
\* it prints is exactly the first min(3, n) of the n results returned, in the
\* order returned; nothing beyond the third is ever printed.
C12_FirstThreeShown ==
    /\ \A req \in inflight : req.kind = "query" => req.k = 50
    /\ response # NoResponse => response.k = 50
    /\ Len(printed) <= 3
    /\ CellPrinted =>
           /\ Len(printed) = Min(3, Len(response.results))
           /\ \A i \in 1..Len(printed) : printed[i] = response.results[i]

C12_Witness ==
    /\ pc = "done"
    /\ cell = 3
    /\ Len(response.results) = 4
    /\ Len(printed) = 3
    /\ response.results[1] > response.results[2]

Next ==
    \/ LoadEnv
    \/ CreateEmbeddings
    \/ CreateVectorStore
    \/ StartIngestion
    \/ ForFile
    \/ EmbedCall
    \/ EmbedReturn
    \/ WriteCall
    \/ WriteReturn
    \/ AddDocumentsReturn
    \/ PrintTotal
    \/ RemoteCallFails
    \/ SearchCall
    \/ SearchReturn
    \/ ShowTop

Spec == Init /\ [][Next]_vars

====
